---- MODULE Spec2Model ----
(***************************************************************************)
(* The motor activation schedulers of the typewriter installation:         *)
(*   "dummy"     motor_controller.DummyMotorController                     *)
(*   "real"      real_motor_controller.RealMotorController                 *)
(*   "optimized" motor_controller.OptimizedMotorController                 *)
(*   "threaded"  motor_controller.RealMotorController                      *)
(* Time is counted in units of 50 ms (0.05 s), so 0.1 s = 2, 0.2 s = 4 and *)
(* 0.3 s = 6.                                                              *)
(***************************************************************************)
EXTENDS Integers, Sequences, FiniteSets, TLC

VARIABLES
    variant,              \* which controller class was constructed
    offset,               \* wall clock minus the clock of the caller's `current_time`
    now,                  \* the caller's clock (playback time, or wall time when offset = 0)
    hardware_available,   \* RealMotorController.hardware_available
    has_motor_map,        \* RealMotorController: __init__ reached the motor_map lines
    motor_queue,          \* list of (motor_id, activation_time)
    active_motors,        \* dict motor_id -> end_time, as its list of (key, value) entries
    throttle_on,          \* motors whose hardware throttle is 1.0
    last_activation,      \* OptimizedMotorController.last_activation
    opt_active_motors,    \* active_motors of the optimized and threaded controllers (a set)
    deactivation_queue,   \* OptimizedMotorController.deactivation_queue (a heap)
    pc,                   \* the last step: "idle", "picked", "enqueued", "activated", "ticked"
    repeated,             \* the last tick repeated a tick at the same time, nothing between
    motors_to_activate,   \* update's local: the due events of the last tick
    activated,            \* the events the last tick handed to _activate_motor
    motors_to_deactivate, \* update's local: the motors the last tick de-energized
    sink_errors,          \* sink calls of the last tick that raised: <<"on" | "off", motor>>
    raised,               \* an exception escaped the last operation
    submitted,            \* number of (char, time) items handed to the controller so far
    enqueued,             \* number of events appended to motor_queue so far
    dispatched,           \* number of events handed to _activate_motor so far
    owed,                 \* per motor: energizes minus de-energizes so far
    periods,              \* per motor: IDLE -> ENERGIZED transitions minus de-energizes
    expiry,               \* per motor: caller's time of the last energize plus its duration
    accepted,             \* per motor: the times of its accepted immediate activations
    requested,            \* the motor of the last immediate activation request, or None
    handed,               \* SpecCalls: the argument the caller picked for its next calls
    boards,               \* motor_controller.RealMotorController: len(self.boards)
    workers,              \* the running _deactivate_after_delay threads:
                          \*   <<board_idx, motor_on_board, the time their sleep ends>>
    text_display          \* TextDisplay: all_chars, current_char_index, last_frame_time, time

vars == <<variant, offset, now, hardware_available, has_motor_map, motor_queue,
          active_motors, throttle_on, last_activation, opt_active_motors,
          deactivation_queue, pc, repeated, motors_to_activate, activated,
          motors_to_deactivate,
          sink_errors, raised, submitted, enqueued, dispatched, owed, periods,
          expiry, accepted, requested, handed, boards, workers, text_display>>

----------------------------------------------------------------------------
(* Bounds of the model *)

\* the clock runs from 0 to MaxTime
MaxTime == 6

\* the characters handed to a queue-based controller have times 0..MaxCharTime
MaxCharTime == 2

\* at most MaxEvents (char, time) items are handed to a queue-based controller
MaxEvents == 2

(* Program constants, in units of 50 ms *)

\* i % 32: 32 motors
NumMotors == 32

\* random.uniform(0.1, 0.3): shortest duration 0.1 s
DurMin == 2

\* random.uniform(0.1, 0.3): longest duration 0.3 s
DurMax == 6

\* time_since_last < 0.2
Cooldown == 4

\* deactivation_time = current_time + 0.1
FixedDelay == 2

\* playback_start_time = time.time(): seconds since 1970 when playback starts; it
\* stands for any value far above the playback horizon
PlaybackStart == 1000

None == -1

Durations == DurMin..DurMax

CharTimes == 0..MaxCharTime

----------------------------------------------------------------------------
(* Characters and the character-to-motor maps *)

Alphabet ==
    << "a", "b", "c", "d", "e", "f", "g", "h", "i", "j", "k", "l", "m",
       "n", "o", "p", "q", "r", "s", "t", "u", "v", "w", "x", "y", "z",
       "0", "1", "2", "3", "4", "5", "6", "7", "8", "9" >>

UpperCase ==
    << "A", "B", "C", "D", "E", "F", "G", "H", "I", "J", "K", "L", "M",
       "N", "O", "P", "Q", "R", "S", "T", "U", "V", "W", "X", "Y", "Z" >>

\* str.lower() on one character
Lower(c) ==
    IF \E i \in DOMAIN UpperCase : UpperCase[i] = c
    THEN Alphabet[CHOOSE i \in DOMAIN UpperCase : UpperCase[i] = c]
    ELSE c

\* for i, char in enumerate(alphabet): motor_map[char] = i % 32
motor_map(c) ==
    IF \E i \in DOMAIN Alphabet : Alphabet[i] = c
    THEN ((CHOOSE i \in DOMAIN Alphabet : Alphabet[i] = c) - 1) % NumMotors
    ELSE None

\* a slip: the space is given the motor of 'a'
GetMotorForCharSpace(char) == IF char = " " THEN 0 ELSE motor_map(Lower(char))

\* _get_motor_for_char: motor_map.get(char.lower())
GetMotorForChar(char) == motor_map(Lower(char))

\* the characters the callers hand in: a letter, an upper-case letter, a space
InputChars == {"a", "B", " "}

\* the characters of the calls with one character: the above, a digit whose
\* index in the alphabet is above 31 and a punctuation mark
SingleChars == InputChars \cup {"7", "."}

----------------------------------------------------------------------------
(* Lists, dicts *)

\* the entries of list s that come before the first one whose key is above k
RECURSIVE UpTo(_, _)
UpTo(s, k) ==
    IF s = <<>> \/ Head(s)[2] > k THEN <<>> ELSE <<Head(s)>> \o UpTo(Tail(s), k)

\* e put into a list ordered by time (the second component), after the entries
\* whose time is not above its own
InsertByTime(s, e) ==
    LET before == UpTo(s, e[2])
    IN  before \o <<e>> \o SubSeq(s, Len(before) + 1, Len(s))

\* a slip: the list is left as the calls appended to it
Unsorted(s) == s

\* a slip: the sort takes the motor id (x[0]) for its key
RECURSIVE SortByMotor(_)
SortByMotor(s) ==
    IF s = <<>> THEN <<>>
    ELSE LET rest == SortByMotor(SubSeq(s, 1, Len(s) - 1))
             e == s[Len(s)]
         IN  SelectSeq(rest, LAMBDA x : x[1] <= e[1]) \o <<e>>
                 \o SelectSeq(rest, LAMBDA x : x[1] > e[1])

\* list.sort(key=lambda x: x[1]): a stable sort by the time
RECURSIVE SortByTime(_)
SortByTime(s) ==
    IF s = <<>> THEN <<>>
    ELSE InsertByTime(SortByTime(SubSeq(s, 1, Len(s) - 1)), s[Len(s)])

\* key in d
HasKey(d, k) == \E i \in DOMAIN d : d[i][1] = k

\* a slip: the entry is added without looking for an entry of the same key
DictSetAppend(d, k, v) == Append(d, <<k, v>>)

\* d[k] = v on a dict: the entry of k is replaced in place, a new key is appended
DictSet(d, k, v) ==
    IF HasKey(d, k)
    THEN [i \in DOMAIN d |-> IF d[i][1] = k THEN <<k, v>> ELSE d[i]]
    ELSE Append(d, <<k, v>>)

\* del d[k]
DictDel(d, k) == SelectSeq(d, LAMBDA p : p[1] # k)

\* f[k], or dflt when k is no key of the function f
Get(f, k, dflt) == IF k \in DOMAIN f THEN f[k] ELSE dflt

\* the function f with f[k] = v
Put(f, k, v) == [x \in DOMAIN f \cup {k} |-> IF x = k THEN v ELSE f[x]]

\* time.time(): the wall clock
Wall == now + offset

\* m is energized according to the controller's active-motor state
IsActive(m) ==
    IF variant \in {"optimized", "threaded"} THEN m \in opt_active_motors
    ELSE HasKey(active_motors, m)

----------------------------------------------------------------------------
(* The queue-based controllers: DummyMotorController and the RealMotorController
   of real_motor_controller.py *)

QueueBased == {"dummy", "real"}

\* what one sink call does: it succeeds, with the random duration drawn, or raises
Outcomes ==
    IF variant = "real" /\ hardware_available
    THEN [ok : {TRUE}, duration : Durations] \cup {[ok |-> FALSE, duration |-> DurMin]}
    ELSE [ok : {TRUE}, duration : Durations]

\* whether a de-energizing sink call succeeds
OffOutcomes == IF variant = "real" /\ hardware_available THEN BOOLEAN ELSE {TRUE}

\* the part of the state one tick works on
TickState ==
    [active_motors |-> active_motors, throttle_on |-> throttle_on,
     sink_errors |-> {}, raised |-> FALSE, done |-> 0,
     owed |-> owed, periods |-> periods, expiry |-> expiry]

\* bookkeeping of an energize of motor m for duration d
Energized(st, m, d) ==
    [st EXCEPT !.owed = Put(@, m, Get(@, m, 0) + 1),
               !.periods = IF HasKey(st.active_motors, m) THEN @
                           ELSE Put(@, m, Get(@, m, 0) + 1),
               !.expiry = Put(@, m, now + d)]

\* bookkeeping of a de-energize of motor m
DeEnergized(st, m) ==
    [st EXCEPT !.owed = Put(@, m, Get(@, m, 0) - 1),
               !.periods = Put(@, m, Get(@, m, 0) - 1)]

\* DummyMotorController._activate_motor
DummyActivateMotor(st, motor_id, out) ==
    LET end_time == Wall + out.duration
    IN  [Energized(st, motor_id, out.duration)
            EXCEPT !.active_motors = DictSet(@, motor_id, end_time)]

\* a slip: _activate_motor without its try/except, the I/O error leaves the call
RealActivateMotorUncaught(st, motor_id, out) ==
    IF ~hardware_available \/ motor_id >= NumMotors THEN st
    ELSE IF out.ok
         THEN [Energized(st, motor_id, out.duration)
                 EXCEPT !.throttle_on = @ \cup {motor_id},
                        !.active_motors = DictSet(@, motor_id, Wall + out.duration)]
         ELSE [st EXCEPT !.sink_errors = @ \cup {<<"on", motor_id>>},
                         !.raised = TRUE]

\* RealMotorController._activate_motor
RealActivateMotor(st, motor_id, out) ==
    IF ~hardware_available \/ motor_id >= NumMotors THEN st
    ELSE IF out.ok
         THEN LET end_time == Wall + out.duration
              IN  [Energized(st, motor_id, out.duration)
                      EXCEPT !.throttle_on = @ \cup {motor_id},
                             !.active_motors = DictSet(@, motor_id, end_time)]
         ELSE \* except Exception: print
              [st EXCEPT !.sink_errors = @ \cup {<<"on", motor_id>>}]

\* RealMotorController._deactivate_motor
RealDeactivateMotor(st, motor_id, ok) ==
    IF ~hardware_available \/ motor_id >= NumMotors THEN st
    ELSE IF ok
         THEN [st EXCEPT !.throttle_on = @ \ {motor_id}]
         ELSE \* except Exception: print
              [st EXCEPT !.sink_errors = @ \cup {<<"off", motor_id>>}]

\* a slip in the due test: an event whose time equals the tick's time is not due
DueNowStrict(activation_time, current_time) == current_time > activation_time

\* a slip in the due test: an event is taken one time unit before its time
DueNowEarly(activation_time, current_time) == current_time + 1 >= activation_time

\* current_time >= activation_time
DueNow(activation_time, current_time) == current_time >= activation_time

\* the due events: motors_to_activate, each with its time
DueEvents(queue, current_time) ==
    SelectSeq(queue, LAMBDA e : DueNow(e[2], current_time))

\* a slip: the queue is not replaced by remaining_queue
KeepWholeQueue(queue, current_time) == queue

\* a slip: remaining_queue is built back to front
RemainingQueueReversed(queue, current_time) ==
    LET r == SelectSeq(queue, LAMBDA e : e[2] > current_time)
    IN  [i \in DOMAIN r |-> r[Len(r) + 1 - i]]

\* a slip: an event whose time is the tick's time stays queued
RemainingQueueKeepsNow(queue, current_time) ==
    SelectSeq(queue, LAMBDA e : e[2] >= current_time)

\* remaining_queue, which becomes self.motor_queue
RemainingQueue(queue, current_time) ==
    SelectSeq(queue, LAMBDA e : ~DueNow(e[2], current_time))

\* a slip in the expiry test: an entry is dropped one time unit before its end
ExpiredEarly(end_time, current_time) == current_time + 1 >= end_time

\* current_time >= end_time
Expired(end_time, current_time) == current_time >= end_time

\* for motor_id in motors_to_activate: self._activate_motor(motor_id)
RECURSIVE ActivateAll(_, _, _)
ActivateAll(st, due, outs) ==
    IF st.done = Len(due) \/ st.raised THEN st
    ELSE LET i == st.done + 1
             m == due[i][1]
             st1 == IF variant = "dummy"
                    THEN DummyActivateMotor(st, m, outs[i])
                    ELSE RealActivateMotor(st, m, outs[i])
         IN  ActivateAll([st1 EXCEPT !.done = i], due, outs)

\* for motor_id, end_time in self.active_motors.items(): if current_time >= end_time
MotorsToDeactivate(active) ==
    LET hit == SelectSeq(active, LAMBDA p : Expired(p[2], now))
    IN  [i \in DOMAIN hit |-> hit[i][1]]

\* for motor_id in motors_to_deactivate: (_deactivate_motor(motor_id);) del active_motors[motor_id]
RECURSIVE DeactivateAll(_, _, _, _)
DeactivateAll(st, motors, offs, i) ==
    IF i > Len(motors) \/ st.raised THEN st
    ELSE LET m == motors[i]
             st1 == IF variant = "dummy" THEN st
                    ELSE RealDeactivateMotor(st, m, offs[i])
             st2 == IF st1.raised THEN st1
                    ELSE [DeEnergized(st1, m)
                            EXCEPT !.active_motors = DictDel(@, m)]
         IN  DeactivateAll(st2, motors, offs, i + 1)

\* a slip: the enqueue itself starts motor 0, as an immediate controller would
EnqueueFrameActivating ==
    /\ UNCHANGED <<text_display, boards, workers, variant, offset, now, hardware_available, has_motor_map,
                   throttle_on, last_activation, opt_active_motors,
                   deactivation_queue, dispatched, owed, periods, expiry, accepted,
                   requested>>
    /\ active_motors' = DictSet(active_motors, 0, Wall + DurMin)
    /\ pc' = "enqueued"
    /\ repeated' = FALSE
    /\ motors_to_activate' = <<>>
    /\ activated' = <<>>
    /\ motors_to_deactivate' = <<>>
    /\ sink_errors' = {}

\* the ghost and controller variables an enqueue leaves as they are
EnqueueFrame ==
    /\ UNCHANGED <<text_display, boards, workers, variant, offset, now, hardware_available, has_motor_map,
                   active_motors, throttle_on, last_activation, opt_active_motors,
                   deactivation_queue, dispatched, owed, periods, expiry, accepted,
                   requested>>
    /\ pc' = "enqueued"
    /\ repeated' = FALSE
    /\ motors_to_activate' = <<>>
    /\ activated' = <<>>
    /\ motors_to_deactivate' = <<>>
    /\ sink_errors' = {}

\* a slip: the pairs of the batch are taken back to front
RECURSIVE AppendMappedReversed(_, _)
AppendMappedReversed(queue, chars_with_times) ==
    IF chars_with_times = <<>> THEN queue
    ELSE LET n == Len(chars_with_times)
             motor_id == GetMotorForChar(chars_with_times[n][1])
         IN  AppendMappedReversed(IF motor_id # None
                                  THEN Append(queue, <<motor_id, chars_with_times[n][2]>>)
                                  ELSE queue,
                                  SubSeq(chars_with_times, 1, n - 1))

\* a slip: an event that is already pending is not appended again
RECURSIVE AppendMappedDedup(_, _)
AppendMappedDedup(queue, chars_with_times) ==
    IF chars_with_times = <<>> THEN queue
    ELSE LET e == <<GetMotorForChar(Head(chars_with_times)[1]), Head(chars_with_times)[2]>>
         IN  AppendMappedDedup(IF e[1] # None /\ \A i \in DOMAIN queue : queue[i] # e
                               THEN Append(queue, e)
                               ELSE queue,
                               Tail(chars_with_times))

\* the list after the mapped characters of a batch are appended
RECURSIVE AppendMapped(_, _)
AppendMapped(queue, chars_with_times) ==
    IF chars_with_times = <<>> THEN queue
    ELSE LET char == Head(chars_with_times)[1]
             char_time == Head(chars_with_times)[2]
             motor_id == GetMotorForChar(char)
         IN  AppendMapped(IF motor_id # None
                          THEN Append(queue, <<motor_id, char_time>>)
                          ELSE queue,
                          Tail(chars_with_times))

\* the queue activate_for_char(char, char_time) leaves
ActivateForCharQueue(queue, char, char_time) ==
    LET motor_id == GetMotorForChar(char)
    IN  IF motor_id = None THEN queue
        ELSE SortByTime(Append(queue, <<motor_id, char_time>>))

\* the queue that calling activate_for_char on each pair of a list, in order, leaves
RECURSIVE EnqueueEach(_, _)
EnqueueEach(queue, chars_with_times) ==
    IF chars_with_times = <<>> THEN queue
    ELSE EnqueueEach(ActivateForCharQueue(queue, Head(chars_with_times)[1],
                                          Head(chars_with_times)[2]),
                     Tail(chars_with_times))

\* activate_for_char(char, char_time)
ActivateForChar(char, char_time) ==
    /\ variant \in QueueBased
    /\ submitted < MaxEvents
    /\ submitted' = submitted + 1
    /\ UNCHANGED handed
    /\ EnqueueFrame
    /\ IF ~has_motor_map
       THEN \* self.motor_map does not exist: AttributeError
            /\ raised' = TRUE
            /\ UNCHANGED <<motor_queue, enqueued>>
       ELSE /\ raised' = FALSE
            /\ \E queue \in {ActivateForCharQueue(motor_queue, char, char_time)} :
                 /\ motor_queue' = queue
                 /\ enqueued' = enqueued + (Len(queue) - Len(motor_queue))

\* the batches handed to activate_for_chars: no, one or two (char, time) pairs
Items == InputChars \X CharTimes

Batches == {<<>>} \cup {<<p>> : p \in Items} \cup {<<p, q>> : p \in Items, q \in Items}

\* activate_for_chars(chars_with_times)
ActivateForChars(chars_with_times) ==
    /\ variant \in QueueBased
    /\ submitted + Len(chars_with_times) <= MaxEvents
    /\ submitted' = submitted + Len(chars_with_times)
    /\ UNCHANGED handed
    /\ EnqueueFrame
    /\ IF chars_with_times = <<>>
       THEN /\ raised' = FALSE
            /\ UNCHANGED <<motor_queue, enqueued>>
       ELSE IF ~has_motor_map
       THEN \* self.motor_map does not exist: AttributeError
            /\ raised' = TRUE
            /\ UNCHANGED <<motor_queue, enqueued>>
       ELSE /\ raised' = FALSE
            /\ \E appended \in {AppendMapped(motor_queue, chars_with_times)} :
                 /\ motor_queue' = SortByTime(appended)
                 /\ enqueued' = enqueued + (Len(appended) - Len(motor_queue))

\* the body of update(current_time), current_time = now, on the queue `queue`
UpdateFrom(queue) ==
       \E due \in {DueEvents(queue, now)} :
       \E remaining_queue \in {RemainingQueue(queue, now)} :
       \E outs \in [1..Len(due) -> Outcomes] :
       \E st1 \in {ActivateAll(TickState, due, outs)} :
       \E to_off \in {IF st1.raised THEN <<>>
                      ELSE MotorsToDeactivate(st1.active_motors)} :
       \E offs \in [1..Len(to_off) -> OffOutcomes] :
       \E st2 \in {DeactivateAll(st1, to_off, offs, 1)} :
          /\ motor_queue' = remaining_queue
          /\ motors_to_activate' = due
          /\ activated' = SubSeq(due, 1, st1.done)
          /\ dispatched' = dispatched + st1.done
          /\ motors_to_deactivate' = to_off
          /\ active_motors' = st2.active_motors
          /\ throttle_on' = st2.throttle_on
          /\ sink_errors' = st2.sink_errors
          /\ raised' = st2.raised
          /\ owed' = st2.owed
          /\ periods' = st2.periods
          /\ expiry' = st2.expiry

\* update(current_time) with current_time = now
Update ==
    /\ variant \in QueueBased
    /\ UpdateFrom(motor_queue)
    /\ pc' = "ticked"
    /\ repeated' = (pc = "ticked")
    /\ handed' = <<>>
    /\ UNCHANGED <<text_display, boards, workers, variant, offset, now, hardware_available, has_motor_map,
                   last_activation, opt_active_motors, deactivation_queue,
                   submitted, enqueued, accepted, requested>>

\* time passes: the wall clock, and with it the caller's clock, advances by 50 ms
Advance ==
    /\ now < MaxTime
    /\ now' = now + 1
    /\ pc' = "idle"
    /\ UNCHANGED handed
    /\ repeated' = FALSE
    /\ motors_to_activate' = <<>>
    /\ activated' = <<>>
    /\ motors_to_deactivate' = <<>>
    /\ sink_errors' = {}
    /\ raised' = FALSE
    /\ expiry' = [m \in {k \in DOMAIN expiry : IsActive(k)} |-> expiry[m]]
    /\ UNCHANGED <<text_display, boards, workers, variant, offset, hardware_available, has_motor_map, motor_queue,
                   active_motors, throttle_on, last_activation, opt_active_motors,
                   deactivation_queue, submitted, enqueued, dispatched, owed, periods,
                   accepted>>
    /\ requested' = None

----------------------------------------------------------------------------
(* Construction *)

NoMap == [m \in {} |-> 0]

\* TextDisplay.__init__: no characters loaded, nothing shown, no frame drawn
NoDisplay ==
    [all_chars |-> <<>>, current_char_index |-> 0, last_frame_time |-> 0, time |-> 0]

\* the controller as constructed
InitController ==
    /\ now = 0
    /\ motor_queue = <<>>
    /\ active_motors = <<>>
    /\ throttle_on = {}
    /\ last_activation = NoMap
    /\ opt_active_motors = {}
    /\ deactivation_queue = <<>>
    /\ pc = "idle"
    /\ repeated = FALSE
    /\ motors_to_activate = <<>>
    /\ activated = <<>>
    /\ motors_to_deactivate = <<>>
    /\ sink_errors = {}
    /\ raised = FALSE
    /\ submitted = 0
    /\ enqueued = 0
    /\ dispatched = 0
    /\ owed = NoMap
    /\ periods = NoMap
    /\ expiry = NoMap
    /\ accepted = NoMap
    /\ requested = None
    /\ handed = <<>>
    /\ workers = {}

InitCommon ==
    /\ InitController
    /\ text_display = NoDisplay

\* DummyMotorController.__init__; the caller passes wall times (update() reading
\* time.time() itself) or playback times (TextDisplay.update)
InitDummy ==
    /\ variant = "dummy"
    /\ boards = 0
    /\ offset \in {0, PlaybackStart}
    /\ hardware_available = FALSE
    /\ has_motor_map = TRUE
    /\ InitCommon

\* RealMotorController.__init__: the libraries are missing (return before the
\* motor_map lines), board initialisation raised, or the hardware is there
InitReal ==
    /\ variant = "real"
    /\ boards = 0
    /\ offset \in {0, PlaybackStart}
    /\ \/ hardware_available = FALSE /\ has_motor_map = FALSE
       \/ hardware_available = FALSE /\ has_motor_map = TRUE
       \/ hardware_available = TRUE /\ has_motor_map = TRUE
    /\ InitCommon

NextQueue ==
    \/ \E char \in SingleChars, char_time \in CharTimes : ActivateForChar(char, char_time)
    \/ \E chars_with_times \in Batches : ActivateForChars(chars_with_times)
    \/ Update
    \/ Advance

SpecDummy == InitDummy /\ [][NextQueue]_vars

SpecReal == InitReal /\ [][NextQueue]_vars

InitQueue == InitDummy \/ InitReal

SpecQueue == InitQueue /\ [][NextQueue]_vars

----------------------------------------------------------------------------
(* OptimizedMotorController *)

\* the char_to_motor table: 'a'..'z' are 0..25, '1'..'6' are 26..31, '7', '8',
\* '9', '0' are 0..3, ' ' is None; a character that is no key gives None here
char_to_motor(c) ==
    CASE c = "1" -> 26  [] c = "2" -> 27  [] c = "3" -> 28
      [] c = "4" -> 29  [] c = "5" -> 30  [] c = "6" -> 31
      [] c = "7" -> 0   [] c = "8" -> 1   [] c = "9" -> 2   [] c = "0" -> 3
      [] OTHER -> IF \E i \in 1..26 : Alphabet[i] = c
                  THEN (CHOOSE i \in 1..26 : Alphabet[i] = c) - 1
                  ELSE None

\* a slip: the activation length 0.1 s taken for the cooldown
RecentlyActivatedShort(last, current_time) == current_time - last < FixedDelay

\* a slip: a request exactly one cooldown after the last one is suppressed too
RecentlyActivatedInclusive(last, current_time) == current_time - last <= Cooldown

\* time_since_last = current_time - last; time_since_last < 0.2
RecentlyActivated(last, current_time) == current_time - last < Cooldown

\* tuple order of Python on (time, motor) pairs
TupleLess(a, b) == a[1] < b[1] \/ (a[1] = b[1] /\ a[2] < b[2])

\* a slip: a motor that already has an event on the heap gets no second one
HeapPushOncePerMotor(heap, e) ==
    IF \E i \in DOMAIN heap : heap[i][2] = e[2] THEN heap
    ELSE LET k == Cardinality({i \in DOMAIN heap : ~TupleLess(e, heap[i])})
         IN  SubSeq(heap, 1, k) \o <<e>> \o SubSeq(heap, k + 1, Len(heap))

\* heapq.heappush: the heap is kept as the list of its entries in pop order
RECURSIVE HeapPush(_, _)
HeapPush(heap, e) ==
    IF heap = <<>> THEN <<e>>
    ELSE IF TupleLess(e, Head(heap)) THEN <<e>> \o heap
    ELSE <<Head(heap)>> \o HeapPush(Tail(heap), e)

\* OptimizedMotorController.activate_for_char(char), at wall time Wall
OptActivateForChar(char) ==
    /\ variant = "optimized"
    /\ pc' = "activated"
    /\ UNCHANGED handed
    /\ repeated' = FALSE
    /\ motors_to_activate' = <<>>
    /\ activated' = <<>>
    /\ motors_to_deactivate' = <<>>
    /\ UNCHANGED <<text_display, boards, workers, variant, offset, now, hardware_available, has_motor_map,
                   motor_queue, active_motors, throttle_on, sink_errors, raised,
                   submitted, enqueued, dispatched>>
    /\ \E motor_idx \in {char_to_motor(Lower(char))} :
       \E current_time \in {Wall} :
         /\ requested' = motor_idx
         /\ IF motor_idx = None
            THEN UNCHANGED <<last_activation, opt_active_motors, deactivation_queue,
                             owed, periods, expiry, accepted>>
            ELSE IF /\ motor_idx \in DOMAIN last_activation
                    /\ RecentlyActivated(last_activation[motor_idx], current_time)
            THEN UNCHANGED <<last_activation, opt_active_motors, deactivation_queue,
                             owed, periods, expiry, accepted>>
            ELSE /\ last_activation' = Put(last_activation, motor_idx, current_time)
                 /\ opt_active_motors' = opt_active_motors \cup {motor_idx}
                 /\ deactivation_queue' =
                        HeapPush(deactivation_queue, <<current_time + FixedDelay, motor_idx>>)
                 /\ owed' = Put(owed, motor_idx, Get(owed, motor_idx, 0) + 1)
                 /\ periods' = IF motor_idx \in opt_active_motors THEN periods
                               ELSE Put(periods, motor_idx, Get(periods, motor_idx, 0) + 1)
                 /\ expiry' = Put(expiry, motor_idx, now + FixedDelay)
                 /\ accepted' = Put(accepted, motor_idx,
                                    Append(Get(accepted, motor_idx, <<>>), now))

\* a slip: an event whose time is the time of the update is not yet due
HeadDueStrict(heap, current_time) == heap # <<>> /\ heap[1][1] < current_time

\* the deactivation event at the head of the heap is due
HeadDue(heap, current_time) == heap # <<>> /\ heap[1][1] <= current_time

\* a slip: every popped event deactivates its motor
StillActiveUnchecked(motor_idx, active) == TRUE

\* the popped event deactivates its motor: if motor_idx in self.active_motors
StillActive(motor_idx, active) == motor_idx \in active

\* while self.deactivation_queue and self.deactivation_queue[0][0] <= current_time
RECURSIVE PopDue(_, _)
PopDue(st, current_time) ==
    IF ~HeadDue(st.heap, current_time) THEN st
    ELSE LET motor_idx == st.heap[1][2]
             rest == Tail(st.heap)
         IN  IF StillActive(motor_idx, st.active)
             THEN PopDue([heap |-> rest,
                          active |-> st.active \ {motor_idx},
                          off |-> Append(st.off, motor_idx),
                          owed |-> Put(st.owed, motor_idx, Get(st.owed, motor_idx, 0) - 1),
                          periods |-> Put(st.periods, motor_idx,
                                          Get(st.periods, motor_idx, 0) - 1)],
                         current_time)
             ELSE PopDue([st EXCEPT !.heap = rest], current_time)

\* OptimizedMotorController.update(), at wall time Wall
OptUpdate ==
    /\ variant = "optimized"
    /\ \E st \in {PopDue([heap |-> deactivation_queue, active |-> opt_active_motors,
                          off |-> <<>>, owed |-> owed, periods |-> periods], Wall)} :
          /\ deactivation_queue' = st.heap
          /\ opt_active_motors' = st.active
          /\ motors_to_deactivate' = st.off
          /\ owed' = st.owed
          /\ periods' = st.periods
    /\ pc' = "ticked"
    /\ repeated' = (pc = "ticked")
    /\ handed' = <<>>
    /\ motors_to_activate' = <<>>
    /\ activated' = <<>>
    /\ UNCHANGED <<text_display, boards, workers, variant, offset, now, hardware_available, has_motor_map,
                   motor_queue, active_motors, throttle_on, last_activation,
                   sink_errors, raised, submitted, enqueued, dispatched, expiry,
                   accepted>>
    /\ requested' = None

\* OptimizedMotorController.__init__
InitOpt ==
    /\ variant = "optimized"
    /\ boards = 0
    /\ offset = 0
    /\ hardware_available = FALSE
    /\ has_motor_map = TRUE
    /\ InitCommon

NextOpt ==
    \/ \E char \in SingleChars : OptActivateForChar(char)
    \/ OptUpdate
    \/ Advance

SpecOpt == InitOpt /\ [][NextOpt]_vars

----------------------------------------------------------------------------
(* The RealMotorController of motor_controller.py: it energizes in
   activate_for_char and starts a thread that de-energizes after a delay *)

\* for addr in range(96, 104): eight boards when every MotorKit is there
NumBoards == 8

\* motors on one board: motor_idx // 4, motor_idx % 4
MotorsPerBoard == 4

\* a slip: the thread takes the next motor of the board
WorkerMotorNext(board_idx, motor_on_board) ==
    board_idx * MotorsPerBoard + ((motor_on_board + 1) % MotorsPerBoard)

\* getattr(self.boards[board_idx], f"motor{motor_on_board + 1}"), as a motor index
WorkerMotor(board_idx, motor_on_board) ==
    board_idx * MotorsPerBoard + motor_on_board

\* RealMotorController.activate_for_char(char), at wall time Wall
ThrActivateForChar(char) ==
    /\ variant = "threaded"
    /\ pc' = "activated"
    /\ repeated' = FALSE
    /\ motors_to_activate' = <<>>
    /\ activated' = <<>>
    /\ motors_to_deactivate' = <<>>
    /\ UNCHANGED <<text_display, boards, variant, offset, now, hardware_available, has_motor_map,
                   motor_queue, active_motors, opt_active_motors, deactivation_queue,
                   submitted, enqueued, dispatched, periods, handed>>
    /\ \E motor_idx \in {char_to_motor(Lower(char))} :
       \E current_time \in {Wall} :
         /\ requested' = motor_idx
         /\ IF motor_idx = None
            THEN /\ raised' = FALSE
                 /\ sink_errors' = {}
                 /\ UNCHANGED <<last_activation, throttle_on, workers, owed, expiry,
                                accepted>>
            ELSE IF /\ motor_idx \in DOMAIN last_activation
                    /\ RecentlyActivated(last_activation[motor_idx], current_time)
            THEN /\ raised' = FALSE
                 /\ sink_errors' = {}
                 /\ UNCHANGED <<last_activation, throttle_on, workers, owed, expiry,
                                accepted>>
            ELSE /\ last_activation' = Put(last_activation, motor_idx, current_time)
                 /\ accepted' = Put(accepted, motor_idx,
                                    Append(Get(accepted, motor_idx, <<>>), now))
                 /\ \E board_idx \in {motor_idx \div MotorsPerBoard} :
                    \E motor_on_board \in {motor_idx % MotorsPerBoard} :
                      IF board_idx < boards
                      THEN \E ok \in BOOLEAN :
                             IF ok
                             THEN \* motor.throttle = 1.0; threading.Thread(...).start()
                                  /\ throttle_on' = throttle_on \cup
                                         {WorkerMotor(board_idx, motor_on_board)}
                                  /\ workers' = workers \cup
                                         {<<board_idx, motor_on_board,
                                            current_time + FixedDelay>>}
                                  /\ owed' = Put(owed, motor_idx, Get(owed, motor_idx, 0) + 1)
                                  /\ expiry' = Put(expiry, motor_idx, now + FixedDelay)
                                  /\ raised' = FALSE
                                  /\ sink_errors' = {}
                             ELSE \* motor.throttle = 1.0 raises: the error leaves the call
                                  /\ raised' = TRUE
                                  /\ sink_errors' = {<<"on", motor_idx>>}
                                  /\ UNCHANGED <<throttle_on, workers, owed, expiry>>
                      ELSE /\ raised' = FALSE
                           /\ sink_errors' = {}
                           /\ UNCHANGED <<throttle_on, workers, owed, expiry>>

\* _deactivate_after_delay(board_idx, motor_on_board, delay) of thread w, once its
\* time.sleep(delay) is over
DeactivateAfterDelay(w) ==
    /\ variant = "threaded"
    /\ w \in workers
    /\ Wall >= w[3]
    /\ workers' = workers \ {w}
    /\ pc' = "worker"
    /\ repeated' = FALSE
    /\ motors_to_activate' = <<>>
    /\ activated' = <<>>
    /\ raised' = FALSE
    /\ requested' = None
    /\ UNCHANGED <<text_display, boards, variant, offset, now, hardware_available, has_motor_map,
                   motor_queue, active_motors, last_activation, opt_active_motors,
                   deactivation_queue, submitted, enqueued, dispatched, periods, expiry,
                   accepted, handed>>
    /\ \E m \in {WorkerMotor(w[1], w[2])} :
         IF w[1] < boards
         THEN \E ok \in BOOLEAN :
                IF ok
                THEN \* motor.throttle = 0.0
                     /\ throttle_on' = throttle_on \ {m}
                     /\ motors_to_deactivate' = <<m>>
                     /\ sink_errors' = {}
                     /\ owed' = Put(owed, m, Get(owed, m, 0) - 1)
                ELSE \* motor.throttle = 0.0 raises: the thread ends with the error
                     /\ sink_errors' = {<<"off", m>>}
                     /\ motors_to_deactivate' = <<>>
                     /\ UNCHANGED <<throttle_on, owed>>
         ELSE /\ sink_errors' = {}
              /\ motors_to_deactivate' = <<>>
              /\ UNCHANGED <<throttle_on, owed>>

\* RealMotorController.__init__ of motor_controller.py: no board or all boards
\* answered
InitThr ==
    /\ variant = "threaded"
    /\ boards \in {0, NumBoards}
    /\ offset = 0
    /\ hardware_available = FALSE
    /\ has_motor_map = TRUE
    /\ InitCommon

NextThr ==
    \/ \E char \in SingleChars : ThrActivateForChar(char)
    \/ \E w \in workers : DeactivateAfterDelay(w)
    \/ Advance

SpecThr == InitThr /\ [][NextThr]_vars

\* the controllers that energize at once, with a cooldown
InitImmediate == InitOpt \/ InitThr

NextImmediate == NextOpt \/ NextThr

SpecImmediate == InitImmediate /\ [][NextImmediate]_vars

----------------------------------------------------------------------------
(* Every controller *)

Init == InitDummy \/ InitReal \/ InitOpt

Next == NextQueue \/ NextOpt

Spec == Init /\ [][Next]_vars

----------------------------------------------------------------------------
(* The calls with their arguments in the state: the caller first picks the
   argument of its next calls, `handed`, the enqueue and activation calls take
   it from there, and the caller lets go of it before it picks another one (a
   tick lets go of it too).  All of it happens at one reading of the clock. *)

\* what the caller can hand to one call: a batch for activate_for_chars, one
\* (char, time) pair for activate_for_char, one character for the
\* activate_for_char of the optimized controller (the time is no part of that call)
Args ==
    IF variant = "optimized"
    THEN {<< <<char, 0>> >> : char \in SingleChars}
    ELSE Batches \cup {<< <<char, char_time>> >> : char \in SingleChars, char_time \in CharTimes}

\* the caller decides on the argument of its next call
Pick ==
    /\ pc \notin {"picked", "enqueued", "activated"}
    /\ handed' \in Args
    /\ pc' = "picked"
    /\ repeated' = FALSE
    /\ motors_to_activate' = <<>>
    /\ activated' = <<>>
    /\ motors_to_deactivate' = <<>>
    /\ sink_errors' = {}
    /\ raised' = FALSE
    /\ requested' = None
    /\ UNCHANGED <<text_display, boards, workers, variant, offset, now, hardware_available, has_motor_map, motor_queue,
                   active_motors, throttle_on, last_activation, opt_active_motors,
                   deactivation_queue, submitted, enqueued, dispatched, owed, periods,
                   expiry, accepted>>

\* the call returned and the caller lets go of its argument
Return ==
    /\ pc \in {"enqueued", "activated"}
    /\ handed' = <<>>
    /\ pc' = "idle"
    /\ raised' = FALSE
    /\ requested' = None
    /\ UNCHANGED <<text_display, boards, workers, variant, offset, now, hardware_available, has_motor_map, motor_queue,
                   active_motors, throttle_on, last_activation, opt_active_motors,
                   deactivation_queue, repeated, motors_to_activate, activated,
                   motors_to_deactivate, sink_errors, submitted, enqueued, dispatched,
                   owed, periods, expiry, accepted>>

InitCalls == InitDummy \/ InitOpt

NextCalls ==
    \/ Pick
    \/ Return
    \/ ActivateForChars(handed)
    \/ Len(handed) = 1 /\ ActivateForChar(handed[1][1], handed[1][2])
    \/ Len(handed) = 1 /\ OptActivateForChar(handed[1][1])
    \/ Update
    \/ OptUpdate

SpecCalls == InitCalls /\ [][NextCalls]_vars

----------------------------------------------------------------------------
(* One scenario, played to the DummyMotorController through its queue and to the
   OptimizedMotorController through calls at the times of the characters:
   'a' at 0 s, 'a' at 0.05 s, 'b' at 0.2 s, and a tick at 0 s, 0.05 s, 0.1 s,
   0.2 s and 0.3 s. *)

\* the (char, time) pairs of the scenario
TraceEvents == << <<"a", 0>>, <<"a", 1>>, <<"b", 4>> >>

\* the times of the ticks of the scenario
TraceTicks == {0, 1, 2, 4, 6}

\* the characters of the scenario that appear at time t
TraceCharsAt(t) == {TraceEvents[i][1] : i \in {j \in DOMAIN TraceEvents : TraceEvents[j][2] = t}}

\* the dummy controller after the three enqueue calls, or the optimized
\* controller as constructed
InitTrace ==
    \/ /\ variant = "dummy"
       /\ boards = 0
       /\ offset \in {0, PlaybackStart}
       /\ hardware_available = FALSE
       /\ has_motor_map = TRUE
       /\ now = 0
       /\ motor_queue = EnqueueEach(<<>>, TraceEvents)
       /\ submitted = Len(TraceEvents)
       /\ enqueued = Len(TraceEvents)
       /\ active_motors = <<>>
       /\ throttle_on = {}
       /\ last_activation = NoMap
       /\ opt_active_motors = {}
       /\ deactivation_queue = <<>>
       /\ pc = "idle"
       /\ repeated = FALSE
       /\ motors_to_activate = <<>>
       /\ activated = <<>>
       /\ motors_to_deactivate = <<>>
       /\ sink_errors = {}
       /\ raised = FALSE
       /\ dispatched = 0
       /\ owed = NoMap
       /\ periods = NoMap
       /\ expiry = NoMap
       /\ accepted = NoMap
       /\ requested = None
       /\ handed = <<>>
       /\ workers = {}
       /\ text_display = NoDisplay
    \/ InitOpt

NextTrace ==
    \/ /\ variant = "dummy"
       /\ now \in TraceTicks
       /\ pc # "ticked"
       /\ Update
    \/ /\ variant = "optimized"
       /\ pc = "idle"
       /\ \E char \in TraceCharsAt(now) : OptActivateForChar(char)
    \/ /\ variant = "optimized"
       /\ now \in TraceTicks
       /\ pc = "activated" \/ (pc = "idle" /\ TraceCharsAt(now) = {})
       /\ OptUpdate
    \/ /\ pc = "ticked" \/ now \notin TraceTicks
       /\ Advance

SpecTrace == InitTrace /\ [][NextTrace]_vars

----------------------------------------------------------------------------
(* Shutdown of real_motor_controller.RealMotorController: main's finally block
   calls cleanup() and exits. *)

\* for i in range(len(self.motors)): self.motors[i].throttle = 0.0, inside one
\* try: the write to motor `failing` raises (failing = NumMotors: none does) and
\* ends the loop, so the motors from `failing` on keep their throttle
DeactivateAllMotors(on, failing) == {m \in on : m >= failing}

\* cleanup(): self._deactivate_all_motors()
Cleanup ==
    /\ variant = "real"
    /\ pc # "cleaned"
    /\ pc' = "cleaned"
    /\ IF ~hardware_available
       THEN /\ UNCHANGED throttle_on
            /\ sink_errors' = {}
       ELSE \E failing \in 0..NumMotors :
              /\ throttle_on' = DeactivateAllMotors(throttle_on, failing)
              /\ sink_errors' = IF failing < NumMotors THEN {<<"off", failing>>} ELSE {}
    /\ raised' = FALSE
    /\ repeated' = FALSE
    /\ motors_to_activate' = <<>>
    /\ activated' = <<>>
    /\ motors_to_deactivate' = <<>>
    /\ UNCHANGED <<text_display, boards, workers, variant, offset, now, hardware_available, has_motor_map,
                   motor_queue, active_motors, last_activation, opt_active_motors,
                   deactivation_queue, submitted, enqueued, dispatched, owed, periods,
                   expiry, accepted, requested, handed>>

\* the frame loop until the finally block runs; sys.exit(0) follows cleanup
NextShutdown ==
    \/ pc # "cleaned" /\ NextQueue
    \/ Cleanup

SpecShutdown == InitReal /\ [][NextShutdown]_vars

----------------------------------------------------------------------------
(* TextDisplay: the dispatch loop.  The display owns a DummyMotorController
   (batch_mode=True) and is called once per frame with the playback time. *)

\* self.frame_rate = 15
FrameRate == 15

\* one second, in time units of 50 ms
UnitsPerSecond == 20

\* now - self.last_frame_time < self.frame_interval, frame_interval = 1.0 / frame_rate
Throttled(wall, last_frame_time) == FrameRate * (wall - last_frame_time) < UnitsPerSecond

\* the texts load_word_data can leave in all_chars: up to MaxEvents (char, time)
\* pairs, after self.all_chars.sort(key=lambda x: x[1])
AllCharsInputs == {SortByTime(t) : t \in UNION {[1..n -> Items] : n \in 0..MaxEvents}}

\* a slip: the scan takes every remaining character, due or not
ScanAll(chars, i, current_time) == Len(chars)

\* for i in range(self.current_char_index, len(self.all_chars)):
\*     if current_time >= char_time: next_char_index = i + 1  else: break
\* started with next_char_index = i (indices count from 0)
RECURSIVE ScanChars(_, _, _)
ScanChars(chars, i, current_time) ==
    IF i >= Len(chars) THEN i
    ELSE IF current_time >= chars[i + 1][2]
         THEN ScanChars(chars, i + 1, current_time)
         ELSE i

\* a slip: the list of new characters starts at the first character again
NewCharsFromStart(chars, from, to) == SubSeq(chars, 1, to)

\* new_chars_with_times: the entries with index from .. to - 1, in index order
NewChars(chars, from, to) == SubSeq(chars, from + 1, to)

\* TextDisplay.update(current_time) with current_time = now
DisplayUpdate ==
    /\ variant = "dummy"
    /\ repeated' = FALSE
    /\ UNCHANGED <<boards, workers, variant, offset, now, hardware_available, has_motor_map,
                   last_activation, opt_active_motors, deactivation_queue, accepted,
                   requested>>
    /\ IF Throttled(Wall, text_display.last_frame_time)
       THEN \* return False
            /\ pc' = "throttled"
            /\ handed' = <<>>
            /\ motors_to_activate' = <<>>
            /\ activated' = <<>>
            /\ motors_to_deactivate' = <<>>
            /\ sink_errors' = {}
            /\ raised' = FALSE
            /\ UNCHANGED <<text_display, motor_queue, active_motors, throttle_on, submitted,
                           enqueued, dispatched, owed, periods, expiry>>
       ELSE \E next_char_index \in {ScanChars(text_display.all_chars,
                                              text_display.current_char_index, now)} :
            \E new_chars_with_times \in {NewChars(text_display.all_chars,
                                                  text_display.current_char_index,
                                                  next_char_index)} :
            \E appended \in {IF new_chars_with_times = <<>> THEN motor_queue
                             ELSE AppendMapped(motor_queue, new_chars_with_times)} :
              /\ pc' = "frame"
              /\ text_display' = [text_display EXCEPT !.last_frame_time = Wall,
                                                      !.time = now,
                                                      !.current_char_index = next_char_index]
              /\ handed' = new_chars_with_times
              /\ submitted' = submitted + Len(new_chars_with_times)
              /\ enqueued' = enqueued + (Len(appended) - Len(motor_queue))
              /\ UpdateFrom(IF new_chars_with_times = <<>> THEN motor_queue
                            ELSE SortByTime(appended))

\* TextDisplay.__init__ and load_word_data; main passes playback times
InitDisplay ==
    /\ variant = "dummy"
    /\ boards = 0
    /\ offset = PlaybackStart
    /\ hardware_available = FALSE
    /\ has_motor_map = TRUE
    /\ InitController
    /\ \E chars \in AllCharsInputs : text_display = [NoDisplay EXCEPT !.all_chars = chars]

NextDisplay ==
    \/ DisplayUpdate
    \/ Advance

SpecDisplay == InitDisplay /\ [][NextDisplay]_vars

----------------------------------------------------------------------------
(* Properties *)

\* the entries of a list
Range(s) == {s[i] : i \in DOMAIN s}

\* how often e occurs in list s
Count(s, e) == Cardinality({i \in DOMAIN s : s[i] = e})

(* C1. Ordering invariant of the queue-based controllers.  An event counts as
   energized when update hands it to _activate_motor.  At every moment the
   events enqueued so far are the events energized so far plus the events still
   queued (none twice, none dropped), and a tick energizes each queued event
   whose time is at most the tick's time as often as it is queued and no other
   event. *)
C1_OrderingInvariant ==
    /\ [](variant \in QueueBased => enqueued = dispatched + Len(motor_queue))
    /\ [][(variant \in QueueBased /\ pc' = "ticked") =>
             /\ \A e \in Range(motor_queue) :
                   Count(activated', e) =
                       IF e[2] <= now' THEN Count(motor_queue, e) ELSE 0
             /\ Range(activated') \subseteq Range(motor_queue)]_vars

\* a second tick has energized the second of two events, one per tick
C1_Witness ==
    /\ variant \in QueueBased
    /\ pc = "ticked"
    /\ dispatched = 2
    /\ Len(activated) = 1

(* C2. No premature activation.  A tick of a queue-based controller energizes
   no event whose time is above the tick's time, and every such event is in the
   queue after the tick as often as before it. *)
C2_NoPrematureActivation ==
    [][(variant \in QueueBased /\ pc' = "ticked") =>
          /\ \A i \in DOMAIN activated' : activated'[i][2] <= now'
          /\ \A e \in Range(motor_queue) :
                e[2] > now' => Count(motor_queue', e) = Count(motor_queue, e)]_vars

\* a tick energized a due event and left a future event in the queue
C2_Witness ==
    /\ variant \in QueueBased
    /\ pc = "ticked"
    /\ activated # <<>>
    /\ \E e \in Range(motor_queue) : e[2] > now

\* the motors of a list of events
MotorsOf(events) == {events[i][1] : i \in DOMAIN events}

(* C3. Bounded energized duration, as claimed: with the duration policy a motor
   energized at caller's time t0 for duration d (expiry = t0 + d on the clock
   of the time the caller passes to update) is gone from active_motors after a
   tick at a time >= t0 + d, and a tick removes a motor only at such a time. *)
C3_BoundedEnergizedDuration ==
    (variant = "dummy" /\ pc = "ticked") =>
        /\ \A m \in DOMAIN expiry : IsActive(m) => now < expiry[m]
        /\ \A m \in Range(motors_to_deactivate) : expiry[m] <= now

(* C4. Every energized motor is de-energized on its schedule, as claimed: in
   every controller, after a tick at or past the time scheduled for a motor's
   deactivation (the time of its last energize plus its duration or fixed
   delay) the motor is not in the active set. *)
C4_DeEnergizedOnSchedule ==
    \A m \in DOMAIN expiry : (pc = "ticked" /\ expiry[m] <= now) => ~IsActive(m)

(* C5, as claimed. Exactly one de-energize per activation: a motor that is not
   active has had one de-energize for each activation that energized it, and no
   motor has had more de-energizes than energizes. *)
C5_OncePerActivation ==
    \A m \in DOMAIN owed : owed[m] >= 0 /\ (~IsActive(m) => owed[m] = 0)

(* C5, amended. Exactly one de-energize per energized period: in every
   controller a motor has had one de-energize for each of its IDLE -> ENERGIZED
   transitions, but for the period it is in while active; it is never
   de-energized twice for one period or while idle, and an activation of a motor
   that is active starts no period of its own. *)
C5_OncePerPeriod ==
    \A m \in DOMAIN owed :
        /\ m \in DOMAIN periods
        /\ periods[m] = IF IsActive(m) THEN 1 ELSE 0
        /\ owed[m] >= periods[m]

\* a motor energized twice in one period has been de-energized, once
C5_Witness ==
    \E m \in DOMAIN owed :
        /\ pc = "ticked"
        /\ m \in Range(motors_to_deactivate)
        /\ ~IsActive(m)
        /\ owed[m] = 1

(* C6. At most one active entry per motor id: the dict active_motors of the
   queue-based controllers never holds two entries of one motor id, whatever was
   enqueued, activated and ticked (the active state of the optimized controller
   is a set of motor ids). *)
C6_AtMostOneActive ==
    \A i, j \in DOMAIN active_motors :
        active_motors[i][1] = active_motors[j][1] => i = j

\* a motor that was active was energized again and has one entry
C6_Witness ==
    /\ variant \in QueueBased
    /\ \E m \in DOMAIN owed : HasKey(active_motors, m) /\ owed[m] = 2

(* C7. Debounce: any two accepted (energizing) immediate activations of one
   motor are at least the cooldown of 0.2 s apart, and a request either energizes
   at its own time or comes less than the cooldown after the motor's last
   accepted activation and energizes nothing. *)
C7_Debounce ==
    /\ \A m \in DOMAIN accepted :
          \A i \in 2..Len(accepted[m]) :
              accepted[m][i] - accepted[m][i - 1] >= Cooldown
    /\ (pc = "activated" /\ requested # None) =>
          /\ requested \in DOMAIN accepted
          /\ LET times == accepted[requested]
                 last == times[Len(times)]
             IN  last = now \/ (last < now /\ now - last < Cooldown)

\* a request 0.05 s after the accepted activation of the same motor was suppressed
C7_Witness ==
    /\ pc = "activated"
    /\ requested # None
    /\ requested \in DOMAIN accepted
    /\ accepted[requested] = <<0>>
    /\ now = 1

(* C8. Idempotent tick: in every controller, a tick that follows a tick at the
   same time with no other operation between them energizes nothing,
   de-energizes nothing, makes no sink call and leaves the queue, the active
   state, the deadline events and the throttles as the first tick left them. *)
C8_IdempotentTick ==
    [][(pc = "ticked" /\ pc' = "ticked") =>
          /\ activated' = <<>>
          /\ motors_to_deactivate' = <<>>
          /\ sink_errors' = {}
          /\ motor_queue' = motor_queue
          /\ active_motors' = active_motors
          /\ opt_active_motors' = opt_active_motors
          /\ deactivation_queue' = deactivation_queue
          /\ throttle_on' = throttle_on
          /\ owed' = owed]_vars

\* a tick was repeated while a motor was active and an event was still queued
C8_Witness ==
    /\ repeated
    /\ pc = "ticked"
    /\ \E m \in 0..(NumMotors - 1) : IsActive(m)
    /\ variant \in QueueBased => motor_queue # <<>>

(* C9. Optimistic transition on hardware failure, as claimed: after a tick of
   the hardware controller in which the sink call energizing a motor raised, the
   motor is recorded in active_motors. *)
C9_OptimisticTransition ==
    (variant = "real" /\ pc = "ticked") =>
        \A e \in sink_errors : e[1] = "on" => IsActive(e[2])

(* C10. A failing sink call does not abort the tick: after a tick of the
   hardware controller in which a sink call raised, no exception has left
   update, every due event was handed to _activate_motor and none is left in the
   queue, every motor whose energize did not fail in this tick is recorded, and
   no entry that update finds expired (current_time >= end_time) is left in
   active_motors. *)
C10_FailureDoesNotAbortTick ==
    (variant = "real" /\ pc = "ticked" /\ sink_errors # {}) =>
        /\ ~raised
        /\ activated = motors_to_activate
        /\ \A e \in Range(motor_queue) : e[2] > now
        /\ \A m \in MotorsOf(activated) : <<"on", m>> \notin sink_errors => IsActive(m)
        /\ \A p \in Range(active_motors) : p[2] > now
        /\ \A m \in Range(motors_to_deactivate) : ~IsActive(m)

\* the energize of the first of two due events failed and the second was recorded
C10_Witness ==
    /\ variant = "real"
    /\ pc = "ticked"
    /\ Len(activated) = 2
    /\ sink_errors = {<<"on", activated[1][1]>>}
    /\ activated[2][1] # activated[1][1]
    /\ IsActive(activated[2][1])

(* C11, as claimed. The public operations never fail because of hardware
   issues: on a RealMotorController constructed while the libraries were missing
   or while board initialisation raised (hardware_available false), no enqueue
   call and no tick lets an exception escape. *)
C11_NeverRaises ==
    (variant = "real" /\ ~hardware_available) => ~raised

(* C12, as claimed. Graceful degradation: with the hardware absent the
   RealMotorController makes the logical transitions of the scheduler; every
   motor whose due event a tick handed to _activate_motor is in the active set
   after that tick (its expiry, at least 0.1 s later, is not reached in the tick
   that energizes it). *)
C12_GracefulDegradation ==
    (variant = "real" /\ ~hardware_available /\ pc = "ticked") =>
        \A m \in MotorsOf(activated) : IsActive(m)

(* C13. No retry after a hardware failure: a tick of the hardware controller
   takes every event it hands to _activate_motor out of the queue, the events
   whose energize call raised included; a tick energizes only events that are in
   the queue, and only an enqueue call puts an event into the queue, so no later
   tick energizes for the failed event again. *)
C13_NoRetry ==
    [][variant = "real" =>
          /\ pc' = "ticked" =>
                /\ \A i \in DOMAIN activated' :
                      <<"on", activated'[i][1]>> \in sink_errors' =>
                          Count(motor_queue', activated'[i]) = 0
                /\ Range(activated') \subseteq Range(motor_queue)
                /\ Len(motor_queue') = Len(motor_queue) - Len(activated')
          /\ pc' # "enqueued" => Range(motor_queue') \subseteq Range(motor_queue)]_vars

\* the energize of a due event failed in a tick that left a later event queued
C13_Witness ==
    /\ variant = "real"
    /\ pc = "ticked"
    /\ Len(activated) = 1
    /\ sink_errors = {<<"on", activated[1][1]>>}
    /\ ~IsActive(activated[1][1])
    /\ motor_queue # <<>>

\* list s is in non-decreasing order of the times of its events
SortedByTime(s) == \A i, j \in DOMAIN s : i < j => s[i][2] <= s[j][2]

(* C14. Drain order: a tick of the DummyMotorController hands all its due
   events, and only events whose time is at most the tick's time, to
   _activate_motor in non-decreasing order of their times, whatever order they
   were enqueued in, and leaves none of them in the queue. *)
C14_DrainOrder ==
    (variant = "dummy" /\ pc = "ticked") =>
        /\ activated = motors_to_activate
        /\ SortedByTime(activated)
        /\ \A i \in DOMAIN activated : activated[i][2] <= now
        /\ \A e \in Range(motor_queue) : e[2] > now

\* one tick activated the event of 'B' at an earlier time before the event of 'a'
C14_Witness ==
    /\ variant = "dummy"
    /\ pc = "ticked"
    /\ Len(activated) = 2
    /\ activated[1][1] = 1
    /\ activated[2][1] = 0
    /\ activated[1][2] < activated[2][2]

(* C15. A tick leaves the strictly-future entries untouched: after a tick of a
   queue-based controller the queue is the list of the events that had a time
   above the tick's time before it, each as often as before and in the order
   they had, which is non-decreasing in time. *)
C15_FutureUntouched ==
    [][(variant \in QueueBased /\ pc' = "ticked") =>
          /\ motor_queue' = SelectSeq(motor_queue, LAMBDA e : e[2] > now)
          /\ SortedByTime(motor_queue')]_vars

\* a tick left two future events of different times in the queue
C15_Witness ==
    /\ variant \in QueueBased
    /\ pc = "ticked"
    /\ Len(motor_queue) = 2
    /\ now < motor_queue[1][2]
    /\ motor_queue[1][2] < motor_queue[2][2]

(* C16. Out-of-order input is tolerated: in every state of a queue-based
   controller, after any enqueue calls (batches with times out of order
   included) and ticks, motor_queue is in non-decreasing order of time. *)
C16_QueueSorted ==
    variant \in QueueBased => SortedByTime(motor_queue)

\* an enqueue call left the event of 'B' at an earlier time before the event of 'a'
C16_Witness ==
    /\ variant \in QueueBased
    /\ pc = "enqueued"
    /\ Len(motor_queue) = 2
    /\ motor_queue[1][1] = 1
    /\ motor_queue[2][1] = 0
    /\ motor_queue[1][2] < motor_queue[2][2]

(* C17. enqueue_batch is equivalent to repeated enqueue: an enqueue call of the
   DummyMotorController with the argument the caller picked, activate_for_chars
   with a batch included, leaves the queue that calling activate_for_char on
   each pair of the argument in order leaves. *)
C17_BatchIsRepeatedEnqueue ==
    [][(variant = "dummy" /\ pc' = "enqueued") =>
          motor_queue' = EnqueueEach(motor_queue, handed)]_vars

\* a batch of two mapped characters with the later time first was enqueued
C17_Witness ==
    /\ variant = "dummy"
    /\ pc = "enqueued"
    /\ Len(handed) = 2
    /\ handed[1][2] > handed[2][2]
    /\ Len(motor_queue) = 2
    /\ SortedByTime(motor_queue)

(* C18. No deduplication on enqueue: an enqueue call of the DummyMotorController
   adds one event for each mapped character of its argument, so each event
   (motor id, time) is in the queue as often as before plus as often as the
   argument names it, pending equal events included; and a tick hands each due
   event to _activate_motor as often as it was queued. *)
C18_NoDeduplication ==
    [][variant = "dummy" =>
          /\ pc' = "enqueued" =>
                /\ \A e \in Range(motor_queue') \cup Range(motor_queue) :
                      Count(motor_queue', e) = Count(motor_queue, e) +
                          Cardinality({i \in DOMAIN handed :
                              <<GetMotorForChar(handed[i][1]), handed[i][2]>> = e})
                /\ Len(motor_queue') = Len(motor_queue) +
                      Cardinality({i \in DOMAIN handed :
                                      GetMotorForChar(handed[i][1]) # None})
          /\ pc' = "ticked" =>
                \A e \in Range(motor_queue) :
                    e[2] <= now => Count(activated', e) = Count(motor_queue, e)]_vars

\* one tick handed two equal events, same motor and same time, to _activate_motor
C18_Witness ==
    /\ variant = "dummy"
    /\ pc = "ticked"
    /\ Len(activated) = 2
    /\ activated[1] = activated[2]
    /\ dispatched = 2

(* C19. Unmapped characters are a silent no-op: no enqueue or activation call of
   the DummyMotorController or the OptimizedMotorController raises; a call whose
   characters are all without a motor (space, punctuation) leaves the queue, the
   active motors, the deadline events and the debounce record as they were; and
   a batch adds one event for each of its other characters. *)
C19_UnmappedNoOp ==
    [][pc' \in {"enqueued", "activated"} =>
          /\ ~raised'
          /\ (\A i \in DOMAIN handed : handed[i][1] \in {" ", "."}) =>
                /\ motor_queue' = motor_queue
                /\ active_motors' = active_motors
                /\ opt_active_motors' = opt_active_motors
                /\ deactivation_queue' = deactivation_queue
                /\ last_activation' = last_activation
          /\ variant = "dummy" =>
                Len(motor_queue') - Len(motor_queue) =
                    Cardinality({i \in DOMAIN handed : handed[i][1] \notin {" ", "."}})]_vars

\* a batch of a space and a letter added one event to the queue
C19_Witness ==
    /\ variant = "dummy"
    /\ pc = "enqueued"
    /\ Len(handed) = 2
    /\ handed[1][1] = " "
    /\ handed[2][1] = "a"
    /\ enqueued = 1
    /\ Len(motor_queue) = 1

(* C20, as claimed. Character-to-motor map: in every controller a call with one
   character of [a-z0-9], in either case, resolves it to the index of its lower
   case in the alphabet a..z0..9, counted from 0, modulo 32: that motor is the
   one requested from the optimized controller, and the motor of the event the
   queue-based controller has queued for the character's time. *)
C20_CharacterMotorMap ==
    (pc \in {"enqueued", "activated"} /\ Len(handed) = 1
        /\ handed[1][1] \notin {" ", "."}) =>
        LET c == Lower(handed[1][1])
            id == ((CHOOSE i \in DOMAIN Alphabet : Alphabet[i] = c) - 1) % 32
        IN  /\ id \in 0..31
            /\ IF variant = "optimized" THEN requested = id
               ELSE <<id, handed[1][2]>> \in Range(motor_queue)

(* C21. Debounce guard contract: in the controllers with a cooldown (optimized
   and threaded), a request for a motor whose recorded last activation is less
   than the cooldown before the time of the request leaves the debounce record,
   the active set, the deadline events, the throttles and the threads as they
   were and raises nothing, so it does not extend the cooldown; every other
   request for a mapped character records the time of the request as the
   motor's last activation and leaves the records of the other motors alone. *)
C21_DebounceGuard ==
    [][(pc' = "activated" /\ requested' # None) =>
          IF /\ requested' \in DOMAIN last_activation
             /\ Wall - last_activation[requested'] < Cooldown
          THEN /\ last_activation' = last_activation
               /\ opt_active_motors' = opt_active_motors
               /\ deactivation_queue' = deactivation_queue
               /\ throttle_on' = throttle_on
               /\ workers' = workers
               /\ ~raised'
          ELSE /\ requested' \in DOMAIN last_activation'
               /\ last_activation'[requested'] = Wall
               /\ \A m \in DOMAIN last_activation :
                     m # requested' => /\ m \in DOMAIN last_activation'
                                       /\ last_activation'[m] = last_activation[m]]_vars

\* the threaded controller suppressed a request 0.15 s after the accepted one
C21_Witness ==
    /\ variant = "threaded"
    /\ pc = "activated"
    /\ requested # None
    /\ requested \in DOMAIN last_activation
    /\ last_activation[requested] = 0
    /\ Wall = 3
    /\ ~raised

(* C22, as claimed. No debounce on a software-only path: on a controller that
   drives no hardware, every activation fires, however close to the last one of
   the same motor; each request for a mapped character made of the optimized
   controller (which has no hardware sink) is accepted at its time, and each
   tick of a queue-based controller without hardware hands every due event to
   _activate_motor. *)
C22_NoDebounceWithoutHardware ==
    /\ (variant = "optimized" /\ pc = "activated" /\ requested # None) =>
          /\ requested \in DOMAIN accepted
          /\ accepted[requested][Len(accepted[requested])] = now
    /\ (variant \in QueueBased /\ ~hardware_available /\ pc = "ticked") =>
          activated = motors_to_activate

(* C23. Deadline-event policy: an update of the OptimizedMotorController takes
   every deactivation event whose time is at most the time of the update out of
   the heap and leaves the others; it deactivates the motors of the popped
   events that are marked active, each once, and nothing else: a popped event
   of a motor that is not active changes neither the active set nor the
   debounce record. *)
C23_DeadlineEvents ==
    [][(variant = "optimized" /\ pc' = "ticked") =>
          LET due == {deactivation_queue[i][2] :
                         i \in {j \in DOMAIN deactivation_queue :
                                   deactivation_queue[j][1] <= Wall}}
          IN  /\ deactivation_queue' =
                     SelectSeq(deactivation_queue, LAMBDA e : e[1] > Wall)
              /\ opt_active_motors' = opt_active_motors \ due
              /\ Range(motors_to_deactivate') = opt_active_motors \cap due
              /\ Len(motors_to_deactivate') = Cardinality(opt_active_motors \cap due)
              /\ last_activation' = last_activation]_vars

\* the event of the second activation of a motor was popped after the motor had
\* been deactivated by the event of the first: the update deactivated nothing
C23_Witness ==
    /\ variant = "optimized"
    /\ pc = "ticked"
    /\ ~repeated
    /\ now = 6
    /\ deactivation_queue = <<>>
    /\ motors_to_deactivate = <<>>
    /\ \E m \in DOMAIN accepted :
          /\ accepted[m] = <<0, 4>>
          /\ ~IsActive(m)
          /\ owed[m] = 1

(* C24, as claimed. Re-activation of an active motor replaces or extends its
   expiry: in every controller a motor has one active entry at most, and a tick
   de-energizes a motor only when the expiry of its latest accepted activation
   (the time of that activation plus its duration or fixed delay) is reached,
   never at the expiry of an earlier activation. *)
C24_ReactivationReplacesExpiry ==
    /\ \A i, j \in DOMAIN active_motors :
          i # j => active_motors[i][1] # active_motors[j][1]
    /\ pc = "ticked" =>
          \A m \in Range(motors_to_deactivate) :
              m \in DOMAIN expiry /\ expiry[m] <= now

(* C25, as claimed. Active set and energized motors agree: in every state of a
   controller that drives hardware (the threaded controller, the queue-based
   RealMotorController with its hardware) a motor is in the active-motor state
   if and only if it is energized, that is, its throttle is on. *)
C25_ActiveIffEnergized ==
    (variant = "threaded" \/ (variant = "real" /\ hardware_available)) =>
        \A m \in 0..(NumMotors - 1) : IsActive(m) <=> m \in throttle_on

(* C26, as claimed. Reference trace: the ticks of the scenario ('a', 'a' 0.05 s
   later, 'b'; ticks at the time of the first 'a', 0.05 s, 0.1 s later, at the
   time of 'b' and 0.1 s later) do exactly this: energize motor(a); nothing, the
   second 'a' is debounced; de-energize motor(a); energize motor(b);
   de-energize motor(b).  What a tick energizes is what it hands to
   _activate_motor, and for the optimized controller what the call at the time
   of the tick accepted. *)
C26_ReferenceTrace ==
    pc = "ticked" =>
        LET on == IF variant = "dummy"
                  THEN [i \in DOMAIN activated |-> activated[i][1]]
                  ELSE IF \E m \in DOMAIN accepted : accepted[m][Len(accepted[m])] = now
                       THEN <<CHOOSE m \in DOMAIN accepted :
                                  accepted[m][Len(accepted[m])] = now>>
                       ELSE <<>>
            off == motors_to_deactivate
        IN  CASE now = 0 -> on = <<0>> /\ off = <<>>
              [] now = 1 -> on = <<>> /\ off = <<>>
              [] now = 2 -> on = <<>> /\ off = <<0>>
              [] now = 4 -> on = <<1>> /\ off = <<>>
              [] now = 6 -> on = <<>> /\ off = <<1>>
              [] OTHER -> FALSE

\* the controller's queue is empty: the motor queue of the queue-based
\* controllers, the deactivation heap of the optimized one
QueueEmpty ==
    IF variant \in QueueBased THEN motor_queue = <<>> ELSE deactivation_queue = <<>>

\* at the time of the tick no queued activation is due and no expiry the
\* controller holds has passed
NothingDue ==
    IF variant \in QueueBased
    THEN /\ \A i \in DOMAIN motor_queue : motor_queue[i][2] > now
         /\ \A i \in DOMAIN active_motors : active_motors[i][2] > now
    ELSE \A i \in DOMAIN deactivation_queue : deactivation_queue[i][1] > Wall

\* the step raises nothing, energizes and de-energizes nothing, and leaves the
\* queues and the active set as they were
NoOpStep ==
    /\ ~raised'
    /\ motors_to_activate' = <<>>
    /\ activated' = <<>>
    /\ motors_to_deactivate' = <<>>
    /\ sink_errors' = {}
    /\ UNCHANGED <<motor_queue, active_motors, opt_active_motors, deactivation_queue,
                   throttle_on, last_activation>>

(* C27, as claimed. No-op ticks: a tick on an empty queue, or a tick in which no
   activation is due and no expiry has passed, raises nothing, makes no energize
   or de-energize, and leaves the queue and the active set unchanged. *)
C27_NoOpTick ==
    [][(pc' = "ticked" /\ variant \in {"dummy", "real", "optimized"}
           /\ (QueueEmpty \/ NothingDue)) => NoOpStep]_vars

(* C27, amended. A tick in which no queued activation is due and no expiry has
   passed is a no-op: it raises nothing, energizes and de-energizes nothing, and
   leaves the queue and the active set unchanged.  (A tick on an empty motor
   queue still de-energizes the motors whose expiry has passed.) *)
C27_NoOpTickNothingDue ==
    [][(pc' = "ticked" /\ variant \in {"dummy", "real", "optimized"}
           /\ NothingDue) => NoOpStep]_vars

\* a tick of the dummy controller has passed over a queued event and an active
\* motor, neither being due, and has done nothing
C27_Witness ==
    /\ variant = "dummy"
    /\ pc = "ticked"
    /\ motor_queue # <<>>
    /\ active_motors # <<>>
    /\ motors_to_activate = <<>>
    /\ motors_to_deactivate = <<>>
    /\ ~raised

(* C28. activate_for_char and activate_for_chars of the queue-based controllers
   are pure data addition: the call leaves the active set and every motor's
   throttle as they were and makes no energize or de-energize, and the active
   set and the throttles change only in a step of update. *)
C28_EnqueueIsDataOnly ==
    [][/\ pc' = "enqueued" =>
              /\ UNCHANGED <<active_motors, throttle_on, owed, periods, dispatched>>
              /\ activated' = <<>>
              /\ motors_to_deactivate' = <<>>
              /\ sink_errors' = {}
       /\ (active_motors' # active_motors \/ throttle_on' # throttle_on) =>
              pc' = "ticked"]_vars

\* an enqueue has returned while a motor of the real controller is energized
\* and an event is waiting
C28_Witness ==
    /\ variant = "real"
    /\ pc = "enqueued"
    /\ ~raised
    /\ motor_queue # <<>>
    /\ active_motors # <<>>
    /\ throttle_on # {}

(* C29. Worker isolation: under every interleaving of the deactivation workers
   with activate_for_char, a step of a worker started for (board_idx,
   motor_on_board) ends that worker and writes at most the throttle of motor
   board_idx * 4 + motor_on_board; every other motor's throttle, the debounce
   record and the active set are as they were. *)
C29_WorkerIsolation ==
    [][pc' = "worker" =>
          /\ \E w \in workers :
                /\ workers' = workers \ {w}
                /\ throttle_on' \in {throttle_on, throttle_on \ {w[1] * 4 + w[2]}}
                /\ sink_errors' \subseteq {<<"off", w[1] * 4 + w[2]>>}
          /\ UNCHANGED <<last_activation, opt_active_motors, active_motors>>]_vars

\* a worker has run while another motor is energized and its worker is waiting
C29_Witness ==
    /\ variant = "threaded"
    /\ pc = "worker"
    /\ workers # {}
    /\ throttle_on # {}
    /\ motors_to_deactivate # <<>>
    /\ \A w \in workers : w[1] * 4 + w[2] \notin Range(motors_to_deactivate)

(* C30, as claimed. Determinism with an explicit clock: the controller reads no
   system clock, so what it holds is fixed by the calls and the times they
   pass: the end time kept for an active motor is the time of the tick that
   energized it plus the duration of the activation, whatever the wall clock
   shows (two runs that differ only in the wall clock keep the same end times
   and so de-energize in the same ticks). *)
C30_ExplicitClockOnly ==
    variant \in QueueBased =>
        \A i \in DOMAIN active_motors :
            /\ active_motors[i][1] \in DOMAIN expiry
            /\ active_motors[i][2] = expiry[active_motors[i][1]]

(* C31, as claimed. Clean physical state at shutdown: after cleanup() nothing is
   raised to the caller, and every motor's hardware output is off; a motor may
   be left energized only when the write to that very motor failed. *)
C31_CleanShutdown ==
    (pc = "cleaned" /\ hardware_available) =>
        /\ ~raised
        /\ \A m \in throttle_on : <<"off", m>> \in sink_errors

(* C32, as claimed. OptimizedMotorController never deactivates early: update
   removes a motor from active_motors no sooner than 0.1 s after the motor's
   most recent accepted activation, also when two activations of the motor
   were accepted with no update between them. *)
C32_NoEarlyDeactivation ==
    [][(variant = "optimized" /\ pc' = "ticked") =>
          \A m \in opt_active_motors \ opt_active_motors' :
              /\ m \in DOMAIN last_activation
              /\ Wall >= last_activation[m] + FixedDelay]_vars

(* C33. In OptimizedMotorController every motor in active_motors has a pending
   event in deactivation_queue, the one pushed by its most recent accepted
   activation (its time is that activation's time plus 0.1 s): no motor is
   active with nothing scheduled to turn it off. *)
C33_ActiveHasPendingEvent ==
    variant = "optimized" =>
        \A m \in opt_active_motors :
            /\ m \in DOMAIN last_activation
            /\ \E i \in DOMAIN deactivation_queue :
                   deactivation_queue[i] = <<last_activation[m] + FixedDelay, m>>

\* a motor is active after its second accepted activation, with the events of
\* both activations on the heap
C33_Witness ==
    /\ variant = "optimized"
    /\ pc = "activated"
    /\ \E m \in opt_active_motors :
          /\ m \in DOMAIN accepted
          /\ Len(accepted[m]) = 2
          /\ Cardinality({i \in DOMAIN deactivation_queue :
                              deactivation_queue[i][2] = m}) = 2

(* C34, as claimed. Thread race in the thread-based RealMotorController: with
   workers that sleep at least their 0.1 s but may run arbitrarily late, no
   worker sets a motor's throttle to 0 during the 0.1 s that follow the latest
   accepted activation of that motor, the one whose own worker is still
   waiting (such a step can only be that of a worker started by an earlier
   activation). *)
C34_NoLateWorkerInWindow ==
    [][(variant = "threaded" /\ pc' = "worker") =>
          \A m \in throttle_on \ throttle_on' :
              (/\ m \in DOMAIN last_activation
               /\ \E w \in workers' : /\ w[1] * MotorsPerBoard + w[2] = m
                                      /\ w[3] = last_activation[m] + FixedDelay) =>
                  Wall >= last_activation[m] + FixedDelay]_vars

(* C35. Character dispatch: a non-throttled TextDisplay.update(current_time)
   hands to the motor controller exactly the entries of all_chars from the old
   current_char_index up to the new one, in index order, each of them with
   char_time <= current_time; a throttled call hands nothing and moves nothing;
   current_char_index never decreases and never exceeds len(all_chars).  So
   over any sequence of calls each entry is handed at most once. *)
C35_CharacterDispatch ==
    [][/\ text_display.current_char_index <= text_display'.current_char_index
       /\ text_display'.current_char_index <= Len(text_display'.all_chars)
       /\ text_display'.all_chars = text_display.all_chars
       /\ pc' = "frame" =>
             /\ handed' = [k \in 1..(text_display'.current_char_index
                                        - text_display.current_char_index) |->
                              text_display.all_chars[text_display.current_char_index + k]]
             /\ \A k \in DOMAIN handed' : text_display'.time >= handed'[k][2]
             /\ submitted' = submitted + Len(handed')
       /\ pc' # "frame" =>
             /\ text_display'.current_char_index = text_display.current_char_index
             /\ submitted' = submitted]_vars

\* a frame has handed over the second character alone, the first one having
\* been handed over by an earlier frame
C35_Witness ==
    /\ pc = "frame"
    /\ Len(text_display.all_chars) = 2
    /\ text_display.all_chars[1][2] < text_display.all_chars[2][2]
    /\ text_display.current_char_index = 2
    /\ handed = <<text_display.all_chars[2]>>
    /\ submitted = 2

(* C36. Bounded queue under the dispatch loop: after every non-throttled
   TextDisplay.update the controller's motor_queue is empty (the characters it
   enqueued were due and the tick with the same current_time took them), and a
   throttled call leaves it empty. *)
C36_QueueEmptyAfterFrame ==
    (variant = "dummy" /\ pc \in {"frame", "throttled"}) => motor_queue = <<>>

\* a frame has enqueued two characters and its tick has activated both
C36_Witness ==
    /\ variant = "dummy"
    /\ pc = "frame"
    /\ Len(handed) = 2
    /\ Len(activated) = 2
    /\ enqueued = 2
    /\ motor_queue = <<>>

====
